---- MODULE Spec2Model ----
(***************************************************************************)
(* Model of the streaming relay of strands-agent-discord-worker:           *)
(* DiscordStreamWriter and capture_stdout_with_discord (src/lambda/        *)
(* utils.py).  A text is a sequence of one-character strings.  One         *)
(* producer thread runs the body of the capture scope and calls write(),   *)
(* flush_remaining() and, on scope exit, close(); one worker thread runs   *)
(* _sender_worker.  SpecConc adds a thread that calls get_full_content();  *)
(* SpecHandler adds lambda_handler (src/lambda/lambda_function.py), which  *)
(* parses the event, runs the agent inside the capture scope and makes the *)
(* final delivery.                                                         *)
(***************************************************************************)
EXTENDS Integers, Sequences, FiniteSets, TLC

\* ------------------------------------------------------------------ bounds
MaxChars == 3        \* longest agent output in the exhaustive scenario
MaxMinLines == 2     \* min_lines ranges over 1..MaxMinLines
MaxBufferSize == 3   \* max_buffer_size ranges over 1..MaxBufferSize
LongPad == 1         \* long chunks: lengths within LongPad of the thresholds
MaxResponse == 2     \* length of the agent's return value

\* ------------------------------------------------------- program constants
TruncateAt == 1900   \* len(content) > 1900
DiscordCap == 2000   \* Discord message size limit
DefaultMaxBuffer == 1500

NL == "\n"
Alphabet == {"a", " ", NL}
Whitespace == {" ", NL}

VARIABLES
    min_lines, max_buffer_size,   \* constructor parameters
    line_buffer,                  \* completed lines, a sequence of texts
    current_line,                 \* the partial line, a text
    total_content,                \* the list of every text written
    send_queue,                   \* queue.Queue contents, FIFO
    unfinished_tasks,             \* queue.Queue's count of put() without task_done()
    stop_event,
    closed,                       \* StringIO closed flag
    wpc, item,                    \* worker: position and the chunk it holds
    ppc,                          \* producer: position
    todo, frags,                  \* agent output still to print; fragment lengths it uses
    example,                      \* which scenario Init chose
    lastOp, lastPut,              \* last producer call that returned; what write() enqueued
    raised, bufAtExit,            \* the body raised; lines buffered when the body ended
    written,                      \* every character accepted by write(), in order
    enqueued,                     \* every chunk ever put on the queue, in order
    started,                      \* every chunk whose delivery call started, in order
    posts,                        \* the content of every POST made, in order
    ndone,                        \* number of delivery calls that returned
    lastOutcome,                  \* outcome of the delivery call that just returned
    failedInRequest,              \* a chunk delivery of the handled request failed
    lock,                         \* holder of self.lock between steps
    rpc, snapshot, lenAtCall,     \* a thread calling get_full_content(); its result
    hpc,                          \* lambda_handler: position
    envelope,                     \* what the inbound event looks like
    token,                        \* lambda_handler's token variable is non-empty
    streaming,                    \* config.ENABLE_DISCORD_STREAMING
    exc,                          \* class of the exception being handled
    response,                     \* the agent's return value, as text
    sent,                         \* _send_discord_response calls made, in order
    ret,                          \* what lambda_handler returned
    sys_stdout,                   \* the object sys.stdout names
    old_stdout,                   \* capture_stdout_with_discord's local old_stdout
    to_old                        \* text printed that went to the old sink

vars == <<min_lines, max_buffer_size, line_buffer, current_line, total_content,
          send_queue, unfinished_tasks, stop_event, closed, wpc, item, ppc,
          todo, frags, example, lastOp, lastPut, raised, bufAtExit, written,
          enqueued, started, posts, ndone, lastOutcome, failedInRequest,
          lock, rpc, snapshot, lenAtCall, hpc, envelope, token, streaming,
          exc, response, sent, ret, sys_stdout, old_stdout, to_old>>

\* ------------------------------------------------------------ text helpers
Min(a, b) == IF a <= b THEN a ELSE b

Rep(c, n) == [i \in 1..n |-> c]

\* ''.join(parts)
RECURSIVE Concat(_)
Concat(parts) ==
    IF parts = <<>> THEN <<>> ELSE Head(parts) \o Concat(Tail(parts))

\* '\n'.join(lines)
RECURSIVE Join(_)
Join(lines) ==
    IF lines = <<>> THEN <<>>
    ELSE IF Len(lines) = 1 THEN lines[1]
    ELSE lines[1] \o <<NL>> \o Join(Tail(lines))

\* sum(len(line) for line in lines)
RECURSIVE SumLen(_)
SumLen(lines) ==
    IF lines = <<>> THEN 0 ELSE Len(Head(lines)) + SumLen(Tail(lines))

\* bool(content.strip()): some character is not whitespace
StripNonEmpty(content) == \E i \in 1..Len(content) : content[i] \notin Whitespace

\* ------------------------------------------------- DiscordStreamWriter code
\* _check_and_send_buffer: the new line buffer and the chunks put on the queue
\* (variant: the line buffer is not emptied after the hand-over)
check_and_send_buffer_keep(lb, ml) ==
    IF Len(lb) >= ml
    THEN [lb |-> lb,
          put |-> IF StripNonEmpty(Join(lb)) THEN <<Join(lb)>> ELSE <<>>]
    ELSE [lb |-> lb, put |-> <<>>]
\* (variant: no test for all-whitespace content)
check_and_send_buffer_nostrip(lb, ml) ==
    IF Len(lb) >= ml
    THEN [lb |-> <<>>, put |-> <<Join(lb)>>]
    ELSE [lb |-> lb, put |-> <<>>]
check_and_send_buffer(lb, ml) ==
    IF Len(lb) >= ml
    THEN [lb |-> <<>>,
          put |-> IF StripNonEmpty(Join(lb)) THEN <<Join(lb)>> ELSE <<>>]
    ELSE [lb |-> lb, put |-> <<>>]

\* all_lines = line_buffer.copy(); if current_line: all_lines.append(...)
AllLines(lb, cl) == IF cl # <<>> THEN Append(lb, cl) ELSE lb

\* _force_send_buffer: the chunks put on the queue (both buffers are cleared)
\* (variant: the partial line is cleared without being sent)
force_send_buffer_drop_partial(lb, cl) ==
    IF lb # <<>> /\ StripNonEmpty(Join(lb)) THEN <<Join(lb)>> ELSE <<>>
force_send_buffer(lb, cl) ==
    LET all_lines == AllLines(lb, cl) IN
    IF all_lines # <<>> /\ StripNonEmpty(Join(all_lines))
    THEN <<Join(all_lines)>> ELSE <<>>

\* the locked part of flush_remaining: the chunks put on the queue
\* (variant: the partial line is cleared without being sent)
\* (variant: the chunk is put without the test for buffered lines)
flush_remaining_locked_no_guard(lb, cl) == <<Join(AllLines(lb, cl))>>
flush_remaining_locked_lines_only(lb, cl) ==
    IF lb # <<>> /\ StripNonEmpty(Join(lb)) THEN <<Join(lb)>> ELSE <<>>
flush_remaining_locked(lb, cl) ==
    LET all_lines == AllLines(lb, cl) IN
    IF all_lines # <<>> /\ StripNonEmpty(Join(all_lines))
    THEN <<Join(all_lines)>> ELSE <<>>

\* index of the first newline of s, 0 when there is none
FirstNL(s) ==
    IF \E i \in 1..Len(s) : s[i] = NL
    THEN CHOOSE i \in 1..Len(s) : s[i] = NL /\ \A j \in 1..(i - 1) : s[j] # NL
    ELSE 0

\* the character loop of write(): characters other than '\n' are appended to
\* current_line; a '\n' completes a non-empty current_line and runs
\* _check_and_send_buffer.  The loop is unrolled one newline at a time.
\* (variant: a newline completes the current line even when it is empty)
RECURSIVE ProcessChars_keep_empty(_, _, _, _)
ProcessChars_keep_empty(s, lb, cl, ml) ==
    LET k == FirstNL(s) IN
    IF k = 0 THEN [lb |-> lb, cl |-> cl \o s, put |-> <<>>]
    ELSE LET line == cl \o SubSeq(s, 1, k - 1)
             chk  == check_and_send_buffer(Append(lb, line), ml)
             rest == ProcessChars_keep_empty(SubSeq(s, k + 1, Len(s)),
                                             chk.lb, <<>>, ml)
         IN [lb |-> rest.lb, cl |-> rest.cl, put |-> chk.put \o rest.put]
RECURSIVE ProcessChars(_, _, _, _)
ProcessChars(s, lb, cl, ml) ==
    LET k == FirstNL(s) IN
    IF k = 0 THEN [lb |-> lb, cl |-> cl \o s, put |-> <<>>]
    ELSE LET line == cl \o SubSeq(s, 1, k - 1)
             lb1  == IF line # <<>> THEN Append(lb, line) ELSE lb
             chk  == check_and_send_buffer(lb1, ml)
             rest == ProcessChars(SubSeq(s, k + 1, Len(s)), chk.lb, <<>>, ml)
         IN [lb |-> rest.lb, cl |-> rest.cl, put |-> chk.put \o rest.put]

\* current_buffer_size >= self.max_buffer_size
\* (variant: > in place of >=)
HardFlushDueStrict(lb, cl, mb) == SumLen(lb) + Len(cl) > mb
HardFlushDue(lb, cl, mb) == SumLen(lb) + Len(cl) >= mb

\* the locked part of write(s) for a non-empty s
write_locked(s, lb, cl, ml, mb) ==
    LET r == ProcessChars(s, lb, cl, ml) IN
    IF HardFlushDue(r.lb, r.cl, mb)
    THEN [lb |-> <<>>, cl |-> <<>>, soft |-> r.put,
          hard |-> force_send_buffer(r.lb, r.cl)]
    ELSE [lb |-> r.lb, cl |-> r.cl, soft |-> r.put, hard |-> <<>>]

\* total_content.append(s)
\* (variant: the text is not recorded)
append_total_skip(tc, s) == tc
append_total(tc, s) == Append(tc, s)

\* get_full_content()
get_full_content == Concat(total_content)

\* _send_to_discord: the content string of the POST
TruncationMarker == <<".", ".", ".">>
BQ == "'"   \* stands for the backquote character of the code fence
Fence == <<BQ, BQ, BQ>>
\* (variant: no truncation)
discord_content_untruncated(content) ==
    Fence \o <<NL>> \o content \o <<NL>> \o Fence
discord_content(content) ==
    LET c == IF Len(content) > TruncateAt
             THEN SubSeq(content, 1, TruncateAt) \o TruncationMarker
             ELSE content
    IN Fence \o <<NL>> \o c \o <<NL>> \o Fence

\* send_queue.get(): the item taken and the queue left
\* (variant: the newest item is taken)
queue_get_last(q) == [item |-> q[Len(q)], rest |-> SubSeq(q, 1, Len(q) - 1)]
queue_get(q) == [item |-> Head(q), rest |-> Tail(q)]

\* ------------------------------------------------------------------- Init
\* DiscordStreamWriter.__init__: empty buffers, empty queue, worker started;
\* capture_stdout_with_discord has installed the writer and yielded it.
InitWriter ==
    /\ line_buffer = <<>>
    /\ current_line = <<>>
    /\ total_content = <<>>
    /\ send_queue = <<>>
    /\ unfinished_tasks = 0
    /\ stop_event = FALSE
    /\ closed = FALSE
    /\ item = <<>>
    /\ lastOp = "none"
    /\ lastPut = [soft |-> <<>>, hard |-> <<>>]
    /\ raised = FALSE
    /\ bufAtExit = <<>>
    /\ written = <<>>
    /\ enqueued = <<>>
    /\ started = <<>>
    /\ posts = <<>>
    /\ ndone = 0
    /\ lastOutcome = "none"
    /\ failedInRequest = FALSE
    /\ lock = "none"

\* no other thread calls get_full_content()
InitNoReader ==
    /\ rpc = "absent"
    /\ snapshot = <<>>
    /\ lenAtCall = 0

\* the session taken by itself, inside a capture scope: the worker is running
\* and the body of the with statement is about to run
InitSession ==
    /\ InitWriter
    /\ wpc = "check"
    /\ ppc = "body"
    /\ hpc = "scope"
    /\ envelope = "ok"
    /\ token = TRUE
    /\ streaming = TRUE
    /\ exc = "none"
    /\ response = <<>>
    /\ sent = <<>>
    /\ ret = "none"
    /\ sys_stdout = "discord_writer"
    /\ old_stdout = "console"
    /\ to_old = <<>>

\* every agent output of MaxChars characters, cut into fragments of any length
InitSmall ==
    /\ example = "small"
    /\ min_lines \in 1..MaxMinLines
    /\ max_buffer_size \in 1..MaxBufferSize
    /\ todo \in [1..MaxChars -> Alphabet]
    /\ frags = 0..MaxChars

\* the worked examples: "a\nb\nc\n" (with min_lines = 1 among others),
\* "a\nb\n" with min_lines = 3, a 15-character line with
\* max_buffer_size = 10, and "a\n\nb" with min_lines = 3
InitExamples ==
    \/ /\ example = "abc"
       /\ min_lines \in 1..3
       /\ max_buffer_size \in {1, 2, DefaultMaxBuffer}
       /\ todo = <<"a", NL, "b", NL, "c", NL>>
       /\ frags = 0..6
    \/ /\ example = "ab3"
       /\ min_lines = 3
       /\ max_buffer_size = DefaultMaxBuffer
       /\ todo = <<"a", NL, "b", NL>>
       /\ frags = 0..4
    \/ /\ example = "x15"
       /\ min_lines \in 1..3
       /\ max_buffer_size = 10
       /\ todo = Rep("x", 15)
       /\ frags = {0, 5, 15}
    \/ /\ example = "anb"
       /\ min_lines = 3
       /\ max_buffer_size = DefaultMaxBuffer
       /\ todo = <<"a", NL, NL, "b">>
       /\ frags = 0..4

\* chunk lengths around the truncation threshold and around the length at which
\* the wrapped content reaches the destination's cap
LongLens ==
    {TruncateAt + d : d \in (0 - LongPad)..LongPad}
        \cup {DiscordCap - 8 + d : d \in (0 - LongPad)..LongPad}

\* one long line, with the default configuration
InitLong ==
    /\ example = "long"
    /\ min_lines = 1
    /\ max_buffer_size = DefaultMaxBuffer
    /\ \E n \in LongLens : todo \in {Rep("a", n), Rep("a", n) \o <<NL>>}
    /\ frags = {0, Len(todo)}

Init == InitSession /\ InitNoReader /\ (InitSmall \/ InitExamples)

\* ------------------------------------------------------------ the producer
producerVars == <<line_buffer, current_line, total_content, ppc, todo, lastOp,
                  lastPut, raised, bufAtExit, written, closed>>
workerVars == <<wpc, item, started, posts, ndone, lastOutcome,
                failedInRequest>>
readerVars == <<lock, rpc, snapshot, lenAtCall>>
handlerVars == <<hpc, envelope, token, streaming, exc, response, sent, ret>>
configVars == <<min_lines, max_buffer_size, frags, example>>
stdoutVars == <<sys_stdout, old_stdout, to_old>>

\* sys.stdout = old_stdout, first statement of the finally clause
\* (variant: sys.stdout is left as it is)
restored_stdout_skipped(old, cur) == cur
restored_stdout(old, cur) == old

\* with self.lock: the lock can be taken when no thread holds it
\* (variant: the worker holds the lock while it delivers a chunk)
lock_acquirable_worker_idle == lock = "none" /\ wpc # "send"
\* (variant: the lock is not looked at)
lock_acquirable_always == TRUE
lock_acquirable == lock = "none"

\* send_queue.put(chunk) for each chunk of puts
Put(puts) ==
    /\ send_queue' = send_queue \o puts
    /\ unfinished_tasks' = unfinished_tasks + Len(puts)
    /\ enqueued' = enqueued \o puts

\* write(s) on the open session; s is the next fragment of the agent's output
Write ==
    /\ ppc = "body"
    /\ \E k \in frags :
        /\ k <= Len(todo)
        /\ LET s == SubSeq(todo, 1, k) IN
           IF s = <<>>
           THEN /\ lastPut' = [soft |-> <<>>, hard |-> <<>>]
                /\ UNCHANGED <<line_buffer, current_line, total_content, todo,
                               written, send_queue, unfinished_tasks, enqueued>>
           ELSE LET w == write_locked(s, line_buffer, current_line,
                                      min_lines, max_buffer_size) IN
                /\ lock_acquirable
                /\ total_content' = append_total(total_content, s)
                /\ line_buffer' = w.lb
                /\ current_line' = w.cl
                /\ Put(w.soft \o w.hard)
                /\ lastPut' = [soft |-> w.soft, hard |-> w.hard]
                /\ written' = written \o s
                /\ todo' = SubSeq(todo, k + 1, Len(todo))
    /\ lastOp' = "write"
    /\ UNCHANGED <<ppc, raised, bufAtExit, closed, stop_event>>
    /\ UNCHANGED workerVars
    /\ UNCHANGED configVars
    /\ UNCHANGED stdoutVars
    /\ UNCHANGED readerVars
    /\ UNCHANGED handlerVars

\* write(s), s non-empty, on the closed session: StringIO.write raises
\* ValueError before anything is recorded
WriteClosed ==
    /\ ppc = "exited"
    /\ closed
    /\ \E k \in frags : k > 0 /\ k <= Len(todo)
    /\ lastOp' = "write_raised"
    /\ UNCHANGED <<line_buffer, current_line, total_content, ppc, todo, lastPut,
                   raised, bufAtExit, written, closed, stop_event, send_queue,
                   unfinished_tasks, enqueued>>
    /\ UNCHANGED workerVars
    /\ UNCHANGED configVars
    /\ UNCHANGED stdoutVars
    /\ UNCHANGED readerVars
    /\ UNCHANGED handlerVars

\* flush_remaining(), last statement of the locked part: self.line_buffer = []
\* (variant: the flushed lines stay in the buffer)
flushed_line_buffer_kept(lb) == lb
flushed_line_buffer(lb) == <<>>

\* flush_remaining() called in the body: the locked part, up to send_queue.join()
FlushRemaining ==
    /\ ppc = "body"
    /\ lock_acquirable
    /\ Put(flush_remaining_locked(line_buffer, current_line))
    /\ line_buffer' = flushed_line_buffer(line_buffer)
    /\ current_line' = <<>>
    /\ ppc' = "flush_join"
    /\ UNCHANGED <<total_content, todo, lastOp, lastPut, raised, bufAtExit,
                   written, closed, stop_event>>
    /\ UNCHANGED workerVars
    /\ UNCHANGED configVars
    /\ UNCHANGED stdoutVars
    /\ UNCHANGED readerVars
    /\ UNCHANGED handlerVars

\* send_queue.join() returns: every put() has had its task_done()
\* (variant: waits for an empty queue, not for the task_done() calls)
join_returns_on_empty_queue == send_queue = <<>>
join_returns == unfinished_tasks = 0

FlushReturn ==
    /\ ppc = "flush_join"
    /\ join_returns
    /\ ppc' = "body"
    /\ lastOp' = "flush"
    /\ UNCHANGED <<line_buffer, current_line, total_content, todo, lastPut,
                   raised, bufAtExit, written, closed, stop_event, send_queue,
                   unfinished_tasks, enqueued>>
    /\ UNCHANGED workerVars
    /\ UNCHANGED configVars
    /\ UNCHANGED stdoutVars
    /\ UNCHANGED readerVars
    /\ UNCHANGED handlerVars

\* close(), first statement: flush_remaining(), its locked part
\* (variant: close() without flush_remaining())
close_flush_skipped(lb, cl) == <<>>
close_flush(lb, cl) == flush_remaining_locked(lb, cl)

\* the body of the with statement ends, by returning or by raising; the finally
\* clause restores sys.stdout and calls close()
ScopeExit ==
    /\ ppc = "body"
    /\ lock_acquirable
    /\ raised' \in BOOLEAN
    /\ bufAtExit' = AllLines(line_buffer, current_line)
    /\ Put(close_flush(line_buffer, current_line))
    /\ line_buffer' = flushed_line_buffer(line_buffer)
    /\ current_line' = <<>>
    /\ ppc' = "close_join"
    /\ UNCHANGED <<total_content, todo, lastOp, lastPut, written, closed,
                   stop_event>>
    /\ UNCHANGED workerVars
    /\ UNCHANGED configVars
    /\ sys_stdout' = restored_stdout(old_stdout, sys_stdout)
    /\ UNCHANGED <<old_stdout, to_old>>
    /\ UNCHANGED readerVars
    /\ UNCHANGED handlerVars

\* close() called again on the closed session: flush_remaining() once more
CloseAgain ==
    /\ ppc = "exited"
    /\ closed
    /\ lock_acquirable
    /\ Put(close_flush(line_buffer, current_line))
    /\ line_buffer' = flushed_line_buffer(line_buffer)
    /\ current_line' = <<>>
    /\ ppc' = "close_join"
    /\ UNCHANGED <<total_content, todo, lastOp, lastPut, written, closed,
                   stop_event, raised, bufAtExit>>
    /\ UNCHANGED workerVars
    /\ UNCHANGED configVars
    /\ UNCHANGED stdoutVars
    /\ UNCHANGED readerVars
    /\ UNCHANGED handlerVars

\* close(): flush_remaining() returns, stop_event.set()
CloseSignal ==
    /\ ppc = "close_join"
    /\ join_returns
    /\ stop_event' = TRUE
    /\ ppc' = "close_thread_join"
    /\ UNCHANGED <<line_buffer, current_line, total_content, todo, lastOp,
                   lastPut, raised, bufAtExit, written, closed, send_queue,
                   unfinished_tasks, enqueued>>
    /\ UNCHANGED workerVars
    /\ UNCHANGED configVars
    /\ UNCHANGED stdoutVars
    /\ UNCHANGED readerVars
    /\ UNCHANGED handlerVars

\* close(): sender_thread.join(timeout=2) returns (the worker ended, or the
\* two seconds passed), super().close(), and the scope is left
CloseReturn ==
    /\ ppc = "close_thread_join"
    /\ \E timed_out \in BOOLEAN : ~timed_out => wpc = "exited"
    /\ closed' = TRUE
    /\ ppc' = "exited"
    /\ lastOp' = "close"
    /\ UNCHANGED <<line_buffer, current_line, total_content, todo, lastPut,
                   raised, bufAtExit, written, stop_event, send_queue,
                   unfinished_tasks, enqueued>>
    /\ UNCHANGED workerVars
    /\ UNCHANGED configVars
    /\ UNCHANGED stdoutVars
    /\ UNCHANGED readerVars
    /\ UNCHANGED handlerVars

\* -------------------------------------------------------------- the worker
sessionVars == <<line_buffer, current_line, total_content, ppc, todo, lastOp,
                 lastPut, raised, bufAtExit, written, closed, stop_event,
                 enqueued>>

\* while not self.stop_event.is_set()
WorkerCheck ==
    /\ wpc = "check"
    /\ wpc' = IF stop_event THEN "exited" ELSE "get"
    /\ UNCHANGED <<item, started, posts, ndone, lastOutcome, failedInRequest,
                   send_queue, unfinished_tasks>>
    /\ UNCHANGED sessionVars
    /\ UNCHANGED configVars
    /\ UNCHANGED stdoutVars
    /\ UNCHANGED readerVars
    /\ UNCHANGED handlerVars

\* content = self.send_queue.get(timeout=0.1); queue.Empty: continue
WorkerGet ==
    /\ wpc = "get"
    /\ IF send_queue # <<>>
       THEN /\ item' = queue_get(send_queue).item
            /\ send_queue' = queue_get(send_queue).rest
            /\ started' = Append(started, queue_get(send_queue).item)
            /\ wpc' = "send"
       ELSE /\ wpc' = "check"
            /\ UNCHANGED <<item, send_queue, started>>
    /\ UNCHANGED <<posts, ndone, lastOutcome, failedInRequest,
                   unfinished_tasks>>
    /\ UNCHANGED sessionVars
    /\ UNCHANGED configVars
    /\ UNCHANGED stdoutVars
    /\ UNCHANGED readerVars
    /\ UNCHANGED handlerVars

\* how one POST can end: status 204, another status, requests.post raising
Outcomes == {"204", "other", "exception"}

\* _send_to_discord returns normally whatever the outcome, so the worker goes
\* on to task_done()
\* (variant: a delivery that raised ends the worker)
next_after_send_stop_on_error(outcome) ==
    IF outcome = "exception" THEN "exited" ELSE "task_done"
next_after_send(outcome) == "task_done"

\* self._send_to_discord(content): one POST; status 204, another status, or an
\* exception of requests.post, each logged and swallowed
WorkerSend ==
    /\ wpc = "send"
    /\ posts' = Append(posts, discord_content(item))
    /\ \E outcome \in Outcomes :
        /\ lastOutcome' = outcome
        /\ failedInRequest' =
               (failedInRequest \/ (hpc = "agent" /\ outcome # "204"))
        /\ wpc' = next_after_send(outcome)
    /\ ndone' = ndone + 1
    /\ UNCHANGED <<item, started, send_queue, unfinished_tasks>>
    /\ UNCHANGED sessionVars
    /\ UNCHANGED configVars
    /\ UNCHANGED stdoutVars
    /\ UNCHANGED readerVars
    /\ UNCHANGED handlerVars

\* self.send_queue.task_done()
WorkerTaskDone ==
    /\ wpc = "task_done"
    /\ unfinished_tasks' = unfinished_tasks - 1
    /\ item' = <<>>
    /\ lastOutcome' = "none"
    /\ wpc' = "check"
    /\ UNCHANGED <<started, posts, ndone, failedInRequest, send_queue>>
    /\ UNCHANGED sessionVars
    /\ UNCHANGED configVars
    /\ UNCHANGED stdoutVars
    /\ UNCHANGED readerVars
    /\ UNCHANGED handlerVars

\* ------------------------------------------------------------------- Next
Next ==
    \/ Write
    \/ WriteClosed
    \/ FlushRemaining
    \/ FlushReturn
    \/ ScopeExit
    \/ CloseAgain
    \/ CloseSignal
    \/ CloseReturn
    \/ WorkerCheck
    \/ WorkerGet
    \/ WorkerSend
    \/ WorkerTaskDone

Spec == Init /\ [][Next]_vars

InitLongSession == InitSession /\ InitNoReader /\ InitLong

SpecLong == InitLongSession /\ [][Next]_vars

\* ------------------------------------------- a reader of the full content
\* another thread is about to call get_full_content(), once
InitReader ==
    /\ rpc = "idle"
    /\ snapshot = <<>>
    /\ lenAtCall = 0

\* the session used by the producer while the reader may call at any time
InitConc ==
    /\ example = "conc"
    /\ min_lines = 1
    /\ max_buffer_size = MaxBufferSize
    /\ todo \in [1..MaxChars -> {"a", NL}]
    /\ frags = 0..MaxChars

InitConcSession == InitSession /\ InitReader /\ InitConc

\* get_full_content() is called
ReaderCall ==
    /\ rpc = "idle"
    /\ rpc' = "waiting"
    /\ lenAtCall' = Len(total_content)
    /\ UNCHANGED <<lock, snapshot>>
    /\ UNCHANGED <<send_queue, unfinished_tasks>>
    /\ UNCHANGED sessionVars
    /\ UNCHANGED workerVars
    /\ UNCHANGED configVars
    /\ UNCHANGED stdoutVars
    /\ UNCHANGED handlerVars

\* with self.lock: entered
ReaderAcquire ==
    /\ rpc = "waiting"
    /\ lock_acquirable
    /\ lock' = "reader"
    /\ rpc' = "locked"
    /\ UNCHANGED <<snapshot, lenAtCall>>
    /\ UNCHANGED <<send_queue, unfinished_tasks>>
    /\ UNCHANGED sessionVars
    /\ UNCHANGED workerVars
    /\ UNCHANGED configVars
    /\ UNCHANGED stdoutVars
    /\ UNCHANGED handlerVars

\* return ''.join(self.total_content), leaving the with block
ReaderReturn ==
    /\ rpc = "locked"
    /\ snapshot' = get_full_content
    /\ lock' = "none"
    /\ rpc' = "done"
    /\ UNCHANGED lenAtCall
    /\ UNCHANGED <<send_queue, unfinished_tasks>>
    /\ UNCHANGED sessionVars
    /\ UNCHANGED workerVars
    /\ UNCHANGED configVars
    /\ UNCHANGED stdoutVars
    /\ UNCHANGED handlerVars

NextConc ==
    \/ Next
    \/ ReaderCall
    \/ ReaderAcquire
    \/ ReaderReturn

SpecConc == InitConcSession /\ [][NextConc]_vars

\* ------------------------------------------------------------ the handler
\* what the inbound event can look like
Envelopes == {"no_records", "bad_json", "not_object", "no_token", "no_options",
              "no_prompt", "bad_prompt", "ok"}

\* the message of the envelope has a non-empty 'token'
TokenInEnvelope(env) == env \in {"no_options", "no_prompt", "bad_prompt", "ok"}

\* exception classes as _handle_request_error tells them apart:
\* json.JSONDecodeError; KeyError, IndexError, TypeError or ValueError; others
ExcClasses == {"json", "value", "other"}

\* _parse_sns_message(event): the class of the exception it raises, or "none"
parse_sns_message(env) ==
    CASE env = "no_records" -> "value"
      [] env = "bad_json" -> "json"
      [] env = "not_object" -> "other"
      [] env \in {"no_token", "no_options", "no_prompt"} -> "value"
      [] OTHER -> "none"

\* validate_prompt(prompt, config.MAX_PROMPT_LENGTH)
validate_prompt(env) == env # "bad_prompt"

\* the message texts; each Japanese text is stood for by an English one
InvalidJson == <<"invalid JSON">>
BadRequestFormat == <<"bad request format">>
InternalServerError == <<"Internal Server Error">>
ValidationError == <<"validation error">>
\* "**" + 4 characters + "**" + newline + 4 characters + ": " (15 characters)
CompletionMarker ==
    <<"*", "*", "d", "o", "n", "e", "*", "*", NL, "l", "a", "s", "t", ":", " ">>

\* str.strip(): whitespace is taken off the front, then off the end
RECURSIVE LStrip(_)
LStrip(text) ==
    IF text # <<>> /\ Head(text) \in Whitespace
    THEN LStrip(Tail(text)) ELSE text

RECURSIVE RStrip(_)
RStrip(text) ==
    IF text # <<>> /\ text[Len(text)] \in Whitespace
    THEN RStrip(SubSeq(text, 1, Len(text) - 1)) ELSE text

Strip(text) == RStrip(LStrip(text))

\* _process_prompt: final_response = str(response).strip()
final_response(resp) == Strip(resp)

\* lambda_handler: the content of the final delivery
\* (variant: the completion marker is put in front whatever the setting)
final_content_marked(enable_streaming, resp) ==
    CompletionMarker \o final_response(resp)
final_content(enable_streaming, resp) ==
    IF enable_streaming THEN CompletionMarker \o final_response(resp)
    ELSE final_response(resp)

\* _handle_request_error(token, error): what is delivered (<<>>: nothing) and
\* the status of the body returned when nothing is delivered
\* (variant: the error is only returned, never delivered)
handle_request_error_body_only(tok, e) ==
    [content |-> <<>>, status |-> IF e = "other" THEN "500" ELSE "400"]
handle_request_error(tok, e) ==
    IF tok
    THEN [content |-> CASE e = "json" -> InvalidJson
                        [] e = "value" -> BadRequestFormat
                        [] OTHER -> InternalServerError,
          status |-> "discord"]
    ELSE [content |-> <<>>, status |-> IF e = "other" THEN "500" ELSE "400"]

\* what the agent prints while it runs: nothing, a partial line, two lines
AgentOutputs == {<<>>, <<"a">>, <<"a", NL, "b">>, <<"a", NL, "b", NL>>}

\* what the agent returns: every short text, and long texts at the lengths
\* where the final content reaches and passes the destination's cap
Responses ==
    [1..MaxResponse -> Alphabet]
        \cup {Rep("a", DiscordCap - Len(CompletionMarker)),
              Rep("a", DiscordCap + LongPad)}

\* the handler before it looks at the event: no session exists
InitHandler ==
    /\ InitWriter
    /\ InitNoReader
    /\ wpc = "none"
    /\ ppc = "none"
    /\ hpc = "start"
    /\ envelope \in Envelopes
    /\ token = FALSE
    /\ streaming \in BOOLEAN
    /\ exc = "none"
    /\ response = <<>>
    /\ sent = <<>>
    /\ ret = "none"
    /\ sys_stdout = "console"
    /\ old_stdout = "console"
    /\ to_old = <<>>
    /\ example = "handler"
    /\ min_lines = 1
    /\ max_buffer_size = DefaultMaxBuffer
    /\ todo = <<>>
    /\ frags = {0, 1, 2}

\* the part of the state that belongs to the session
streamVars == <<send_queue, unfinished_tasks, line_buffer, current_line,
                total_content, lastOp, lastPut, raised, bufAtExit, written,
                closed, stop_event, enqueued, item, started, posts, ndone,
                lastOutcome, failedInRequest>>

\* token, prompt = _parse_sns_message(event), and the except clause around it
HandlerParse ==
    /\ hpc = "start"
    /\ LET e == parse_sns_message(envelope) IN
       IF e = "none"
       THEN /\ token' = TRUE
            /\ hpc' = "validate"
            /\ UNCHANGED <<exc, ret>>
       ELSE IF e \in {"json", "value"}
       THEN /\ ret' = handle_request_error(FALSE, e).status
            /\ hpc' = "returned"
            /\ exc' = e
            /\ UNCHANGED token
       ELSE /\ exc' = e
            /\ hpc' = "error"
            /\ UNCHANGED <<token, ret>>
    /\ UNCHANGED <<envelope, streaming, response, sent>>
    /\ UNCHANGED <<wpc, ppc, todo>>
    /\ UNCHANGED streamVars
    /\ UNCHANGED configVars
    /\ UNCHANGED stdoutVars
    /\ UNCHANGED readerVars

\* _send_discord_response(token, content) called inside the try block: the
\* POST returns a status, or requests.post raises into the except clause
Deliver(content) ==
    /\ sent' = Append(sent, content)
    /\ \E outcome \in Outcomes :
        IF outcome = "exception"
        THEN /\ exc' = "other"
             /\ hpc' = "error"
             /\ UNCHANGED ret
        ELSE /\ ret' = "discord"
             /\ hpc' = "returned"
             /\ UNCHANGED exc

\* validate_prompt; an invalid prompt is answered with the validation message
HandlerValidate ==
    /\ hpc = "validate"
    /\ IF validate_prompt(envelope)
       THEN /\ hpc' = "create"
            /\ UNCHANGED <<exc, sent, ret>>
       ELSE Deliver(ValidationError)
    /\ UNCHANGED <<envelope, token, streaming, response>>
    /\ UNCHANGED <<wpc, ppc, todo>>
    /\ UNCHANGED streamVars
    /\ UNCHANGED configVars
    /\ UNCHANGED stdoutVars
    /\ UNCHANGED readerVars

\* _create_model, _build_tools_list, _create_agent: done, or one of them raises
HandlerCreate ==
    /\ hpc = "create"
    /\ \/ /\ hpc' = "process"
          /\ UNCHANGED exc
       \/ /\ exc' \in ExcClasses
          /\ hpc' = "error"
    /\ UNCHANGED <<envelope, token, streaming, response, sent, ret>>
    /\ UNCHANGED <<wpc, ppc, todo>>
    /\ UNCHANGED streamVars
    /\ UNCHANGED configVars
    /\ UNCHANGED stdoutVars
    /\ UNCHANGED readerVars

\* _process_prompt with streaming: capture_stdout_with_discord constructs the
\* session, starts the worker, and the agent begins to print its output
HandlerEnterScope ==
    /\ hpc = "process"
    /\ streaming
    /\ hpc' = "agent"
    /\ ppc' = "body"
    /\ wpc' = "check"
    /\ todo' \in AgentOutputs
    /\ UNCHANGED <<envelope, token, streaming, exc, response, sent, ret>>
    /\ UNCHANGED streamVars
    /\ UNCHANGED configVars
    /\ old_stdout' = sys_stdout
    /\ sys_stdout' = "discord_writer"
    /\ UNCHANGED to_old
    /\ UNCHANGED readerVars

\* _process_prompt with streaming: the scope has been left; the agent raised,
\* or it returned and final_response is computed
HandlerLeaveScope ==
    /\ hpc = "agent"
    /\ ppc = "exited"
    /\ IF raised
       THEN /\ exc' \in ExcClasses
            /\ hpc' = "error"
            /\ UNCHANGED response
       ELSE /\ response' \in Responses
            /\ hpc' = "final"
            /\ UNCHANGED exc
    /\ UNCHANGED <<envelope, token, streaming, sent, ret>>
    /\ UNCHANGED <<wpc, ppc, todo>>
    /\ UNCHANGED streamVars
    /\ UNCHANGED configVars
    /\ UNCHANGED stdoutVars
    /\ UNCHANGED readerVars

\* _process_prompt without streaming: capture_stdout and the agent, no session
HandlerPlain ==
    /\ hpc = "process"
    /\ ~streaming
    /\ \/ /\ exc' \in ExcClasses
          /\ hpc' = "error"
          /\ UNCHANGED response
       \/ /\ response' \in Responses
          /\ hpc' = "final"
          /\ UNCHANGED exc
    /\ UNCHANGED <<envelope, token, streaming, sent, ret>>
    /\ UNCHANGED <<wpc, ppc, todo>>
    /\ UNCHANGED streamVars
    /\ UNCHANGED configVars
    /\ UNCHANGED stdoutVars
    /\ UNCHANGED readerVars

\* the final delivery
HandlerFinal ==
    /\ hpc = "final"
    /\ Deliver(final_content(streaming, response))
    /\ UNCHANGED <<envelope, token, streaming, response>>
    /\ UNCHANGED <<wpc, ppc, todo>>
    /\ UNCHANGED streamVars
    /\ UNCHANGED configVars
    /\ UNCHANGED stdoutVars
    /\ UNCHANGED readerVars

\* except Exception as e: return _handle_request_error(token, e); a delivery
\* made there that raises ends the handler with that exception
HandlerError ==
    /\ hpc = "error"
    /\ LET h == handle_request_error(token, exc) IN
       IF h.content = <<>>
       THEN /\ ret' = h.status
            /\ hpc' = "returned"
            /\ UNCHANGED sent
       ELSE /\ sent' = Append(sent, h.content)
            /\ \E outcome \in Outcomes :
                IF outcome = "exception"
                THEN hpc' = "raised_out" /\ UNCHANGED ret
                ELSE hpc' = "returned" /\ ret' = h.status
    /\ UNCHANGED <<envelope, token, streaming, exc, response>>
    /\ UNCHANGED <<wpc, ppc, todo>>
    /\ UNCHANGED streamVars
    /\ UNCHANGED configVars
    /\ UNCHANGED stdoutVars
    /\ UNCHANGED readerVars

NextHandler ==
    \/ Next
    \/ HandlerParse
    \/ HandlerValidate
    \/ HandlerCreate
    \/ HandlerEnterScope
    \/ HandlerLeaveScope
    \/ HandlerPlain
    \/ HandlerFinal
    \/ HandlerError

SpecHandler == InitHandler /\ [][NextHandler]_vars

\* ------------------------------------------------------------- scheduling
\* the session with a short output, for the claims about termination
InitFair ==
    /\ example = "fair"
    /\ min_lines = 1
    /\ max_buffer_size = MaxBufferSize
    /\ todo \in [1..MaxChars -> {"a", NL}]
    /\ frags = 1..MaxChars

InitFairSession == InitSession /\ InitNoReader /\ InitFair

\* the worker thread keeps being scheduled, and a POST returns or raises
\* (requests.post has timeout=5)
WorkerFairness ==
    /\ WF_vars(WorkerCheck)
    /\ WF_vars(WorkerGet)
    /\ WF_vars(WorkerSend)
    /\ WF_vars(WorkerTaskDone)

\* the producer thread inside flush_remaining() or close() keeps running: a
\* join() that can return does, and sender_thread.join(timeout=2) ends
ProducerFairness ==
    /\ WF_vars(FlushReturn)
    /\ WF_vars(CloseSignal)
    /\ WF_vars(CloseReturn)

SpecFair ==
    InitFairSession /\ [][Next]_vars /\ WorkerFairness /\ ProducerFairness

\* ------------------------------------------------- the scope and sys.stdout
\* what sys.stdout can name when the scope is entered
OldSinks == {"console", "outer_capture"}

\* the session inside a capture scope entered with either sink installed; the
\* agent's output may still be printed after the body has ended
InitScope ==
    /\ example = "scope"
    /\ min_lines = 1
    /\ max_buffer_size = MaxBufferSize
    /\ todo \in [1..MaxChars -> {"a", NL}]
    /\ frags = 1..MaxChars

InitScopeSession ==
    /\ InitWriter
    /\ InitNoReader
    /\ InitScope
    /\ wpc = "check"
    /\ ppc = "body"
    /\ hpc = "scope"
    /\ envelope = "ok"
    /\ token = TRUE
    /\ streaming = TRUE
    /\ exc = "none"
    /\ response = <<>>
    /\ sent = <<>>
    /\ ret = "none"
    /\ sys_stdout = "discord_writer"
    /\ old_stdout \in OldSinks
    /\ to_old = <<>>

\* print(s) by some thread once the body has ended: the text goes to the
\* object sys.stdout names then, the session's write() or the old sink
PrintLate ==
    /\ ppc \in {"close_join", "close_thread_join", "exited"}
    /\ \E k \in frags :
        /\ k > 0
        /\ k <= Len(todo)
        /\ LET s == SubSeq(todo, 1, k) IN
           IF sys_stdout = "discord_writer"
           THEN IF closed
                THEN UNCHANGED <<line_buffer, current_line, total_content,
                                 written, send_queue, unfinished_tasks,
                                 enqueued, to_old>>
                ELSE LET w == write_locked(s, line_buffer, current_line,
                                           min_lines, max_buffer_size) IN
                     /\ lock_acquirable
                     /\ total_content' = append_total(total_content, s)
                     /\ line_buffer' = w.lb
                     /\ current_line' = w.cl
                     /\ Put(w.soft \o w.hard)
                     /\ written' = written \o s
                     /\ UNCHANGED to_old
           ELSE /\ to_old' = to_old \o s
                /\ UNCHANGED <<line_buffer, current_line, total_content,
                               written, send_queue, unfinished_tasks,
                               enqueued>>
        /\ todo' = SubSeq(todo, k + 1, Len(todo))
    /\ UNCHANGED <<ppc, lastOp, lastPut, raised, bufAtExit, closed, stop_event>>
    /\ UNCHANGED <<sys_stdout, old_stdout>>
    /\ UNCHANGED workerVars
    /\ UNCHANGED configVars
    /\ UNCHANGED readerVars
    /\ UNCHANGED handlerVars

\* discord_writer.close() raises an Exception while it waits: the except
\* clause of the finally block logs it and the scope is left
CloseRaises ==
    /\ ppc \in {"close_join", "close_thread_join"}
    /\ ppc' = "exited"
    /\ lastOp' = "close_raised"
    /\ UNCHANGED <<line_buffer, current_line, total_content, todo, lastPut,
                   raised, bufAtExit, written, closed, stop_event, send_queue,
                   unfinished_tasks, enqueued>>
    /\ UNCHANGED stdoutVars
    /\ UNCHANGED workerVars
    /\ UNCHANGED configVars
    /\ UNCHANGED readerVars
    /\ UNCHANGED handlerVars

NextScope ==
    \/ Next
    \/ PrintLate
    \/ CloseRaises

SpecScope == InitScopeSession /\ [][NextScope]_vars

\* ----------------------------------------------------- claims: vocabulary
\* text with its whitespace characters deleted
NonWs(text) == SelectSeq(text, LAMBDA c : c \notin Whitespace)

HasNonWs(text) == NonWs(text) # <<>>

IsPrefix(a, b) == Len(a) <= Len(b) /\ SubSeq(b, 1, Len(a)) = a

\* the pieces of t between its newlines (one more piece than newlines)
RECURSIVE Split(_)
Split(t) ==
    LET k == FirstNL(t) IN
    IF k = 0 THEN <<t>>
    ELSE <<SubSeq(t, 1, k - 1)>> \o Split(SubSeq(t, k + 1, Len(t)))

\* What a write(s) is to do to buffers lb, cl, said without the character loop:
\* the non-empty lines that s completes, the partial line it leaves, the groups
\* of n lines it hands over and the lines left behind.
RefCompleted(cl, s) ==
    LET parts == Split(cl \o s) IN
    SelectSeq(SubSeq(parts, 1, Len(parts) - 1), LAMBDA l : l # <<>>)
RefPartial(cl, s) == LET parts == Split(cl \o s) IN parts[Len(parts)]
RefLines(lb, cl, s) == lb \o RefCompleted(cl, s)
RefGroups(lb, cl, s, n) ==
    LET all == RefLines(lb, cl, s) IN
    [j \in 1..(Len(all) \div n) |-> Join(SubSeq(all, (j - 1) * n + 1, j * n))]
RefSoft(lb, cl, s, n) == SelectSeq(RefGroups(lb, cl, s, n), HasNonWs)
RefLeft(lb, cl, s, n) ==
    LET all == RefLines(lb, cl, s) IN
    SubSeq(all, (Len(all) \div n) * n + 1, Len(all))
RefBuffered(lb, cl, s, n) ==
    RefLeft(lb, cl, s, n)
        \o (IF RefPartial(cl, s) # <<>> THEN <<RefPartial(cl, s)>> ELSE <<>>)
RefSize(lb, cl, s, n) == SumLen(RefLeft(lb, cl, s, n)) + Len(RefPartial(cl, s))

\* the text of a step's non-empty write(), and the steps that are calls
Wrote == SubSeq(written', Len(written) + 1, Len(written'))
IsWrite == written' # written
IsFlush == ppc = "body" /\ ppc' = "flush_join"

\* ----------------------------------------------------------------- claims
\* C1: at every moment get_full_content() is the concatenation, in call
\* order, of all texts passed to write() on the session, whatever flushes and
\* deliveries happened in between.
C1_FullContent == get_full_content = written

C1_Witness ==
    /\ Len(total_content) >= 2
    /\ lastOp = "write"
    /\ lastPut.hard # <<>>
    /\ ndone >= 1

\* C2: chunks are delivered in the order they were enqueued, and at most one
\* delivery attempt is in progress at any time: an attempt starts only when
\* all earlier ones have returned.
C2_DeliveryOrder ==
    /\ IsPrefix(started, enqueued)
    /\ ndone <= Len(started)
    /\ Len(started) <= ndone + 1

C2_Witness ==
    /\ ndone >= 2
    /\ started[1] # started[2]

\* C3: when flush_remaining() has returned (called in the body, or as the first
\* statement of close()), both buffers and the queue are empty and every chunk
\* ever enqueued has had its delivery call made and returned.
FlushHasReturned ==
    \/ ppc = "body" /\ lastOp = "flush"
    \/ ppc = "close_thread_join"

C3_FlushDrains ==
    FlushHasReturned =>
        /\ line_buffer = <<>>
        /\ current_line = <<>>
        /\ send_queue = <<>>
        /\ started = enqueued
        /\ ndone = Len(enqueued)
        /\ Len(posts) = Len(enqueued)

C3_Witness ==
    /\ ppc = "body"
    /\ lastOp = "flush"
    /\ example = "abc"
    /\ min_lines = 2
    /\ max_buffer_size = DefaultMaxBuffer
    /\ written = <<"a", NL, "b", NL, "c">>
    /\ enqueued = << <<"a", NL, "b">>, <<"c">> >>

\* C4: when the capture scope has been left, by a return or by an exception
\* of the body, close() has run, the lines and the partial line buffered when
\* the body ended were enqueued as the last chunk (unless all whitespace), and
\* every chunk has had its delivery attempted.
C4_ScopeExit ==
    ppc = "exited" =>
        /\ closed
        /\ stop_event
        /\ line_buffer = <<>>
        /\ current_line = <<>>
        /\ send_queue = <<>>
        /\ started = enqueued
        /\ ndone = Len(enqueued)
        /\ HasNonWs(Join(bufAtExit)) =>
              /\ enqueued # <<>>
              /\ enqueued[Len(enqueued)] = Join(bufAtExit)
        /\ NonWs(Concat(enqueued)) = NonWs(written)

C4_Witness ==
    /\ ppc = "exited"
    /\ raised
    /\ todo # <<>>
    /\ Len(bufAtExit) >= 2
    /\ HasNonWs(Join(bufAtExit))

\* C5: no character other than whitespace is lost, duplicated or reordered:
\* the chunks enqueued so far followed by what is still buffered are, whitespace
\* deleted, the text written; so after flush_remaining() the chunks alone are.
C5_Conservation ==
    /\ NonWs(Concat(enqueued) \o Concat(line_buffer) \o current_line)
           = NonWs(written)
    /\ FlushHasReturned => NonWs(Concat(enqueued)) = NonWs(get_full_content)

C5_Witness ==
    /\ ppc = "body"
    /\ lastOp = "flush"
    /\ Len(enqueued) >= 2
    /\ Len(NonWs(written)) < Len(written)
    /\ Len(Concat(enqueued)) < Len(written)

\* C6: soft flush.  A write() hands over, in order, each group of min_lines
\* completed non-empty lines (the buffered ones first) as one chunk, the lines
\* joined with a newline, unless the group is all whitespace; the lines of a
\* group leave the line buffer, which keeps fewer than min_lines lines (and is
\* emptied when the write() ends in a hard flush).  With min_lines = 1 the text "a\nb\nc\n" gives
\* the chunks "a", "b", "c", in one write() or in several.
C6_SoftFlushStep ==
    IsWrite =>
        /\ lastPut'.soft =
               RefSoft(line_buffer, current_line, Wrote, min_lines)
        /\ enqueued' = enqueued \o lastPut'.soft \o lastPut'.hard
        /\ RefSize(line_buffer, current_line, Wrote, min_lines)
               < max_buffer_size =>
               /\ line_buffer' =
                      RefLeft(line_buffer, current_line, Wrote, min_lines)
               /\ Len(line_buffer') < min_lines

C6_Example ==
    (example = "abc" /\ min_lines = 1 /\ todo = <<>>) =>
        enqueued = << <<"a">>, <<"b">>, <<"c">> >>

C6_SoftFlush == [][C6_SoftFlushStep]_vars /\ []C6_Example

C6_Witness ==
    /\ example = "abc"
    /\ min_lines = 1
    /\ max_buffer_size = DefaultMaxBuffer
    /\ todo = <<>>
    /\ Len(total_content) >= 2
    /\ lastPut.soft = << <<"b">>, <<"c">> >>
    /\ enqueued = << <<"a">>, <<"b">>, <<"c">> >>

\* C7 as stated: a write() that leaves fewer than min_lines completed lines
\* buffered without reaching max_buffer_size enqueues nothing, and a
\* flush_remaining() that finds fewer than min_lines completed lines (and
\* something buffered) enqueues exactly one chunk, the buffered lines and the
\* partial line joined with newlines.
C7_WriteKeepsIncompleteBatch ==
    (/\ IsWrite
     /\ Len(RefLines(line_buffer, current_line, Wrote)) < min_lines
     /\ RefSize(line_buffer, current_line, Wrote, min_lines) < max_buffer_size)
    => /\ enqueued' = enqueued
       /\ line_buffer' = RefLines(line_buffer, current_line, Wrote)
       /\ current_line' = RefPartial(current_line, Wrote)

C7_FlushOneChunkAlways ==
    (/\ IsFlush
     /\ Len(line_buffer) < min_lines
     /\ AllLines(line_buffer, current_line) # <<>>)
    => enqueued' =
           Append(enqueued, Join(AllLines(line_buffer, current_line)))

C7_Original ==
    [][C7_WriteKeepsIncompleteBatch /\ C7_FlushOneChunkAlways]_vars

\* C7, amended: as above, but flush_remaining() enqueues that one chunk only if
\* it has a character that is not whitespace, and nothing otherwise; either way
\* both buffers are left empty.  With min_lines = 3, write("a\nb\n") and then
\* flush_remaining() give exactly the chunk "a\nb".
C7_FlushOneChunk ==
    (IsFlush /\ Len(line_buffer) < min_lines)
    => LET content == Join(AllLines(line_buffer, current_line)) IN
       /\ enqueued' = IF HasNonWs(content)
                      THEN Append(enqueued, content) ELSE enqueued
       /\ line_buffer' = <<>>
       /\ current_line' = <<>>

C7_ExampleStep ==
    (/\ IsFlush
     /\ example = "ab3"
     /\ written = <<"a", NL, "b", NL>>
     /\ enqueued = <<>>)
    => enqueued' = << <<"a", NL, "b">> >>

C7_ForceFlush ==
    [][C7_WriteKeepsIncompleteBatch /\ C7_FlushOneChunk /\ C7_ExampleStep]_vars

C7_Witness ==
    /\ example = "ab3"
    /\ ppc = "body"
    /\ lastOp = "flush"
    /\ Len(total_content) = 1
    /\ written = <<"a", NL, "b", NL>>
    /\ enqueued = << <<"a", NL, "b">> >>

\* C8: hard flush.  If at the end of a write() the lengths of the buffered
\* lines and of the partial line add up to max_buffer_size or more, that
\* write() enqueues them all as one chunk (unless all whitespace) after its
\* soft-flush chunks and leaves both buffers empty; otherwise it enqueues no
\* such chunk.  With max_buffer_size = 10, one write() of 15 characters without
\* a newline enqueues one chunk of these 15 characters.
C8_HardFlushStep ==
    IsWrite =>
        LET all == RefBuffered(line_buffer, current_line, Wrote, min_lines) IN
        IF RefSize(line_buffer, current_line, Wrote, min_lines)
               >= max_buffer_size
        THEN /\ lastPut'.hard =
                    IF HasNonWs(Join(all)) THEN <<Join(all)>> ELSE <<>>
             /\ enqueued' = enqueued \o lastPut'.soft \o lastPut'.hard
             /\ line_buffer' = <<>>
             /\ current_line' = <<>>
        ELSE /\ lastPut'.hard = <<>>
             /\ current_line' = RefPartial(current_line, Wrote)

C8_Example ==
    (/\ example = "x15"
     /\ lastOp = "write"
     /\ total_content = <<Rep("x", 15)>>)
    => /\ enqueued = <<Rep("x", 15)>>
       /\ line_buffer = <<>>
       /\ current_line = <<>>

C8_HardFlush == [][C8_HardFlushStep]_vars /\ []C8_Example

C8_Witness ==
    /\ example = "x15"
    /\ lastOp = "write"
    /\ total_content = <<Rep("x", 15)>>
    /\ lastPut.hard = <<Rep("x", 15)>>
    /\ send_queue = <<Rep("x", 15)>>

\* C9: every chunk in the pending queue, and every chunk ever enqueued, has at
\* least one character that is not whitespace.
C9_NoBlankChunk ==
    /\ \A i \in 1..Len(send_queue) : HasNonWs(send_queue[i])
    /\ \A i \in 1..Len(enqueued) : HasNonWs(enqueued[i])

C9_Witness ==
    /\ example = "small"
    /\ min_lines = 1
    /\ max_buffer_size = MaxBufferSize
    /\ written = <<" ", NL, "a">>
    /\ ppc = "flush_join"
    /\ send_queue = << <<"a">> >>
    /\ enqueued = << <<"a">> >>

\* C10: the content of every POST has at most 2000 characters; every chunk
\* taken from the queue is posted, and a chunk of more than 1900 characters is
\* posted as its first 1900 characters followed by the marker, inside the fence.
C10_PostWithinCap ==
    /\ Len(posts) = ndone
    /\ (wpc # "send") => Len(posts) = Len(started)
    /\ \A i \in 1..Len(posts) :
          LET n == Min(Len(started[i]), TruncateAt) IN
          /\ Len(posts[i]) <= DiscordCap
          /\ SubSeq(posts[i], 1, 4) = Fence \o <<NL>>
          /\ SubSeq(posts[i], 5, 4 + n) = SubSeq(started[i], 1, n)
          /\ Len(started[i]) > TruncateAt =>
                 posts[i] = Fence \o <<NL>> \o SubSeq(started[i], 1, TruncateAt)
                                \o TruncationMarker \o <<NL>> \o Fence

C10_Witness ==
    /\ Len(posts) = 1
    /\ Len(started[1]) = DiscordCap - 7
    /\ Len(posts[1]) = TruncateAt + 11

\* C11: every enqueued chunk is attempted exactly once whatever the outcomes of
\* earlier deliveries: the chunks taken by the worker followed by those still
\* queued are exactly the chunks enqueued, in order; each chunk taken has one
\* POST; a failed delivery (exception or status other than 204) is followed by
\* task_done() like a successful one, the worker ends only on the stop signal,
\* and when close() has returned every chunk has had its POST.
C11_EachChunkOnce ==
    /\ started \o send_queue = enqueued
    /\ Len(posts) = ndone
    /\ Len(posts) = IF wpc = "send" THEN Len(started) - 1 ELSE Len(started)
    /\ \A i \in 1..Len(posts) : posts[i] = discord_content(started[i])
    /\ lastOutcome # "none" => wpc = "task_done"
    /\ wpc = "exited" => stop_event
    /\ closed => Len(posts) = Len(enqueued)

\* the second delivery has just failed and another chunk is waiting behind it
C11_Witness ==
    /\ wpc = "task_done"
    /\ lastOutcome = "exception"
    /\ ndone = 2
    /\ send_queue # <<>>

\* C13: close() called again on the closed session finds both buffers and the
\* queue empty, enqueues nothing, takes and posts no chunk, and its
\* send_queue.join() returns at once; the session stays closed.
C13_ClosedIsDrained ==
    closed =>
        /\ line_buffer = <<>>
        /\ current_line = <<>>
        /\ send_queue = <<>>
        /\ wpc \notin {"send", "task_done"}
        /\ stop_event
        /\ ppc = "close_join" => join_returns

C13_ClosedStep ==
    closed =>
        /\ closed'
        /\ stop_event'
        /\ enqueued' = enqueued
        /\ started' = started
        /\ posts' = posts
        /\ total_content' = total_content

C13_SecondClose == []C13_ClosedIsDrained /\ [][C13_ClosedStep]_vars

C13_Witness ==
    /\ closed
    /\ ppc = "close_thread_join"
    /\ Len(enqueued) >= 2
    /\ raised

\* C14: write() never waits for a delivery: whenever the worker is inside a
\* delivery call and the producer has text to write, the write() step can be
\* taken; a write() step only enqueues (no POST is made by it), and a POST is
\* made only by a step of the worker, which leaves the lock and the buffers
\* alone.
CanWrite == \E k \in frags : k > 0 /\ k <= Len(todo)

C14_WriteEnabledDuringDelivery ==
    (wpc = "send" /\ ppc = "body" /\ CanWrite /\ lock = "none")
    => ENABLED (Write /\ IsWrite)

C14_WriteStep ==
    /\ IsWrite => (posts' = posts /\ ndone' = ndone /\ wpc' = wpc)
    /\ posts' # posts =>
           /\ wpc = "send"
           /\ UNCHANGED <<lock, line_buffer, current_line, total_content,
                         written, enqueued>>

C14_WriteNeverWaits ==
    []C14_WriteEnabledDuringDelivery /\ [][C14_WriteStep]_vars

C14_Witness ==
    /\ wpc = "send"
    /\ lastOp = "write"
    /\ lastPut.hard # <<>>
    /\ Len(enqueued) >= 2
    /\ Len(started) = 1
    /\ ppc = "body"

\* C20: the text returned by get_full_content() is the concatenation of a
\* prefix of the texts written, each whole, which has at least the writes
\* made before the call; while the reader holds the lock neither buffer nor
\* the accumulator changes, a step that changes one of them is a step of the
\* producer taken with the lock free, and no step of the worker changes them.
BufferVars == <<line_buffer, current_line, total_content>>

C20_Snapshot ==
    /\ Concat(total_content) = written
    /\ rpc = "done" =>
        \E n \in lenAtCall..Len(total_content) :
            snapshot = Concat(SubSeq(total_content, 1, n))
    /\ lock = "reader" <=> rpc = "locked"

C20_LockStep ==
    /\ lock = "reader" => UNCHANGED BufferVars
    /\ BufferVars' # BufferVars =>
           /\ lock = "none"
           /\ lock' = "none"
           /\ UNCHANGED workerVars
    /\ wpc' # wpc => UNCHANGED BufferVars

C20_ConsistentSnapshot == []C20_Snapshot /\ [][C20_LockStep]_vars

\* the call was made after one write and returned before the last one, while
\* the worker was delivering
C20_Witness ==
    /\ rpc = "done"
    /\ lenAtCall = 1
    /\ snapshot # <<>>
    /\ snapshot # written
    /\ ppc = "body"
    /\ lastOp = "write"
    /\ wpc = "send"

\* ------------------------------------------------- claims about the handler
\* lambda_handler has ended: it returned, or an exception left it
Done == hpc \in {"returned", "raised_out"}

\* the streaming session of the request was entered
InSession == ppc # "none"

IsCompletion(content) == IsPrefix(CompletionMarker, content)

\* C12: a failed chunk delivery never reaches the producer or the request:
\* whatever the outcomes of the deliveries, a write() on the open session can be
\* taken and raises nothing (write() raises only on the closed session), the
\* worker is alive whenever flush_remaining() or close() waits in join() for a
\* chunk, and once the agent has returned the handler goes on to the final
\* delivery, whose content is the completion message.
C12_DeliveryFailuresContained ==
    /\ (ppc = "body" /\ CanWrite /\ lock = "none")
           => ENABLED (Write /\ IsWrite)
    /\ lastOp = "write_raised" => closed
    /\ (ppc \in {"flush_join", "close_join"} /\ unfinished_tasks > 0)
           => wpc \in {"check", "get", "send", "task_done"}
    /\ (InSession /\ hpc # "agent" /\ ~raised) =>
           \/ hpc = "final" /\ sent = <<>>
           \/ sent # <<>> /\ sent[1] = final_content(TRUE, response)

C12_Witness ==
    /\ failedInRequest
    /\ hpc = "returned"
    /\ ~raised
    /\ lastOp = "close"
    /\ Len(enqueued) >= 2
    /\ sent = <<final_content(TRUE, response)>>

\* the agent returned a value
AgentSucceeded == response # <<>>

\* no session, no worker, no chunk
RelayBypassed ==
    /\ ppc = "none"
    /\ wpc = "none"
    /\ enqueued = <<>>
    /\ posts = <<>>
    /\ total_content = <<>>

C16_FinalState ==
    /\ Cardinality({i \in 1..Len(sent) : IsCompletion(sent[i])}) <= 1
    /\ (Done /\ InSession /\ ~raised) =>
           (sent # <<>> /\ sent[1] = CompletionMarker \o Strip(response))
    /\ (\E i \in 1..Len(sent) : IsCompletion(sent[i])) =>
        /\ streaming
        /\ send_queue = <<>>
        /\ started = enqueued
        /\ wpc \notin {"send", "task_done"}
        /\ ndone = Len(enqueued)
        /\ Len(posts) = Len(enqueued)

C16_FinalStep ==
    sent # <<>> => (posts' = posts /\ started' = started /\ enqueued' = enqueued)

C16_FinalAfterChunks == []C16_FinalState /\ [][C16_FinalStep]_vars

C16_Witness ==
    /\ hpc = "returned"
    /\ streaming
    /\ written = <<"a", NL, "b">>
    /\ Len(total_content) >= 2
    /\ posts = <<discord_content(<<"a">>), discord_content(<<"b">>)>>
    /\ sent = <<CompletionMarker \o Strip(response)>>
    /\ Strip(response) # response

\* the messages the handler can send
FinalMessages ==
    {final_content(streaming, response), ValidationError, InvalidJson,
     BadRequestFormat, InternalServerError}

\* C17: when the token was extracted and the handler has ended, it has made a
\* delivery call to the destination, and the last one has the answer, the
\* validation message or a failure message as content; a handler that returned
\* returned the result of that call.
C17_NeverSilent ==
    (Done /\ token) =>
        /\ sent # <<>>
        /\ sent[Len(sent)] \in FinalMessages
        /\ hpc = "returned" => ret = "discord"

C17_Witness ==
    /\ hpc = "returned"
    /\ token
    /\ streaming
    /\ raised
    /\ exc = "other"
    /\ enqueued # <<>>
    /\ sent = <<InternalServerError>>

\* C18: on a malformed envelope the handler delivers the error to the
\* destination when the envelope carries a token, and returns a 400 body with
\* no delivery only when it carries none.
C18_MalformedEnvelope ==
    (Done /\ parse_sns_message(envelope) # "none") =>
        IF TokenInEnvelope(envelope)
        THEN sent # <<>> /\ ret = "discord"
        ELSE sent = <<>> /\ ret = "400"

\* C19: a failure of the agent invocation, whatever the class of the exception,
\* is reported to the destination as 'Internal Server Error' (the token is
\* always there when the agent runs), never as a request-format error.
C19_AgentFailureGeneric ==
    (Done /\ InSession /\ raised) =>
        /\ token
        /\ sent = <<InternalServerError>>

\* ------------------------------------------- claims about the session, 2
\* C21: close() always terminates: with the worker scheduled and every POST
\* returning, a close() that has begun reaches its return, whatever was
\* buffered or queued and whatever the outcomes of the deliveries; and once
\* the stop signal is set close() can return whether or not the worker has
\* ended (the join is bounded).
Closing == ppc \in {"close_join", "close_thread_join"}

C21_BoundedJoin == ppc = "close_thread_join" => ENABLED CloseReturn

C21_CloseTerminates ==
    /\ []C21_BoundedJoin
    /\ Closing ~> (ppc = "exited")

\* close() has returned after a failed delivery of the last of two chunks,
\* before the worker ended
C21_Witness ==
    /\ ppc = "exited"
    /\ lastOp = "close"
    /\ Len(enqueued) >= 2
    /\ ndone = Len(enqueued)
    /\ wpc = "check"

\* a write() of a text that ends at its only newline: one soft-flush check
OneLineWrite == IsWrite /\ FirstNL(Wrote) = Len(Wrote)

\* the line buffer when that check is made
LinesAtCheck ==
    LET line == current_line \o SubSeq(Wrote, 1, Len(Wrote) - 1) IN
    IF line # <<>> THEN Append(line_buffer, line) ELSE line_buffer

\* C22, as stated: at the check, min_lines or more lines whose join is not all
\* whitespace are enqueued as one chunk; otherwise (fewer lines, or an
\* all-whitespace join) nothing is enqueued and the lines stay in the line
\* buffer.
C22_OriginalStep ==
    OneLineWrite =>
        IF Len(LinesAtCheck) >= min_lines /\ HasNonWs(Join(LinesAtCheck))
        THEN lastPut'.soft = <<Join(LinesAtCheck)>>
        ELSE /\ lastPut'.soft = <<>>
             /\ SumLen(LinesAtCheck) < max_buffer_size =>
                    line_buffer' = LinesAtCheck

C22_CheckStep ==
    OneLineWrite =>
        IF Len(LinesAtCheck) >= min_lines
        THEN /\ lastPut'.soft = IF HasNonWs(Join(LinesAtCheck))
                                THEN <<Join(LinesAtCheck)>> ELSE <<>>
             /\ line_buffer' = <<>>
        ELSE /\ lastPut'.soft = <<>>
             /\ SumLen(LinesAtCheck) < max_buffer_size =>
                    line_buffer' = LinesAtCheck

WhitespaceLineWrite ==
    /\ OneLineWrite
    /\ current_line = <<>>
    /\ Len(Wrote) >= 2
    /\ ~HasNonWs(Wrote)
    /\ SumLen(line_buffer) + Len(Wrote) - 1 < max_buffer_size

\* C23, as stated: for every min_lines >= 1 a whitespace-only completed line
\* that is not enqueued stays counted in the buffer size that later write()
\* calls compare with max_buffer_size.
C23_OriginalStep ==
    (WhitespaceLineWrite /\ lastPut'.soft = <<>>) =>
        SumLen(line_buffer') + Len(current_line')
            = SumLen(line_buffer) + Len(Wrote) - 1

C23_CountStep ==
    WhitespaceLineWrite =>
        /\ lastPut'.soft # << SubSeq(Wrote, 1, Len(Wrote) - 1) >>
        /\ ~HasNonWs(Join(LinesAtCheck)) => lastPut'.soft = <<>>
        /\ SumLen(line_buffer') + Len(current_line') =
               IF Len(LinesAtCheck) < min_lines
               THEN SumLen(line_buffer) + Len(Wrote) - 1
               ELSE 0

Suffix(text, n) == SubSeq(text, Len(text) - n + 1, Len(text))

BufferedChars == SumLen(line_buffer) + Len(current_line)

C25_BoundedBuffer == BufferedChars < max_buffer_size

\* fifteen characters with no newline, written five at a time: nine are never
\* buffered
C25_Witness ==
    /\ example = "x15"
    /\ Len(total_content) = 3
    /\ lastOp = "write"
    /\ todo = <<>>
    /\ enqueued = <<Rep("x", 10)>>
    /\ current_line = Rep("x", 5)

\* --------------------------------------------- claims about the handler, 2
\* C26: the content of every POST of a request has at most 2000 characters:
\* the worker's chunk deliveries and the handler's own deliveries (completion
\* or answer, validation and failure messages), for a response of any length.
\* (The fixed messages are short texts; each is one element here.)
C26_AllPostsWithinCap ==
    /\ \A i \in 1..Len(posts) : Len(posts[i]) <= DiscordCap
    /\ \A i \in 1..Len(sent) : Len(sent[i]) <= DiscordCap

\* ------------------------------------------- claims about the session, 3
\* C27: flush_remaining() called with an empty line buffer and an empty
\* partial line puts no chunk on the queue and leaves the buffers, the queue,
\* the count of unfinished tasks and total_content as they were; and while a
\* flush_remaining() that directly follows a returned one waits, no delivery
\* is made.
NothingBuffered == line_buffer = <<>> /\ current_line = <<>>

C27_FlushStep ==
    (IsFlush /\ NothingBuffered) =>
        UNCHANGED <<line_buffer, current_line, total_content, send_queue,
                    unfinished_tasks, enqueued, posts>>

C27_WaitStep ==
    (ppc = "flush_join" /\ lastOp = "flush") =>
        UNCHANGED <<send_queue, unfinished_tasks, enqueued, posts>>

C27_FlushIdempotent == [][C27_FlushStep /\ C27_WaitStep]_vars

\* a second flush_remaining() is waiting, directly after one that delivered a
\* chunk: nothing is queued and nothing is being delivered
C27_Witness ==
    /\ ppc = "flush_join"
    /\ lastOp = "flush"
    /\ enqueued # <<>>
    /\ posts # <<>>
    /\ send_queue = <<>>
    /\ unfinished_tasks = 0

\* C28: the worker never ends with work left: the stop signal is set only
\* when every chunk put on the queue has been taken, attempted and marked
\* done, and it stays so; the worker leaves its loop only after the stop
\* signal, so whenever it has ended the queue is empty and every enqueued
\* chunk has been attempted.
Drained ==
    /\ send_queue = <<>>
    /\ unfinished_tasks = 0
    /\ started = enqueued
    /\ ndone = Len(enqueued)
    /\ Len(posts) = Len(enqueued)

C28_WorkerLeavesNothing ==
    /\ stop_event => Drained
    /\ wpc = "exited" => stop_event

\* the worker has ended after three chunks, the last of them put by close()
C28_Witness ==
    /\ wpc = "exited"
    /\ Len(enqueued) = 3
    /\ bufAtExit # <<>>
    /\ Len(posts) = 3

\* C29: no deadlock between the producer, a flush and the worker.  While
\* flush_remaining() or close() waits for the queue with tasks unfinished,
\* the worker is still in its loop, the stop signal is not set, and every
\* unfinished task is either on the queue or the chunk the worker is
\* delivering or about to mark done (whatever the outcome of its delivery),
\* so the worker's next steps bring the count down.  And the waiting is done
\* without the buffer lock: a thread that asks for the lock meanwhile (write()
\* and get_full_content() take the same lock) can take it.
WaitingForQueue ==
    /\ ppc \in {"flush_join", "close_join"}
    /\ unfinished_tasks > 0

InHand == IF wpc \in {"send", "task_done"} THEN 1 ELSE 0

C29_WorkerCanProgress ==
    WaitingForQueue =>
        /\ wpc # "exited"
        /\ ~stop_event
        /\ unfinished_tasks = Len(send_queue) + InHand
        /\ ENABLED (WorkerCheck \/ WorkerGet \/ WorkerSend \/ WorkerTaskDone)

C29_LockFreeWhileWaiting ==
    (ppc \in {"flush_join", "close_join", "close_thread_join"}
        /\ rpc = "waiting") => ENABLED ReaderAcquire

C29_NoDeadlock == C29_WorkerCanProgress /\ C29_LockFreeWhileWaiting

\* flush_remaining() is waiting for a chunk whose delivery raised and which is
\* about to be marked done, and another thread has taken the lock meanwhile
C29_Witness ==
    /\ ppc = "flush_join"
    /\ unfinished_tasks = 1
    /\ wpc = "task_done"
    /\ lastOutcome = "exception"
    /\ rpc = "locked"
    /\ lenAtCall = Len(total_content)

\* C30: empty lines are discarded.  A newline that arrives while the partial
\* line is empty adds no entry to the line buffer: every entry of the line
\* buffer is a non-empty line, and no chunk put on the queue begins or ends
\* with a newline or has two newlines in a row.  For "a\n\nb" written with
\* min_lines = 3: once it is all written and nothing has been enqueued, the
\* line buffer holds the one line "a" and the partial line is "b"; and when
\* one chunk has been enqueued and nothing is left buffered, that chunk is
\* "a\nb".
NoEmptyLine(c) ==
    /\ c # <<>>
    /\ c[1] # NL
    /\ c[Len(c)] # NL
    /\ \A i \in 1..(Len(c) - 1) : ~(c[i] = NL /\ c[i + 1] = NL)

C30_Example ==
    (example = "anb" /\ todo = <<>>) =>
        /\ (enqueued = <<>> /\ ppc = "body" /\ lastOp = "write") =>
               /\ line_buffer = << <<"a">> >>
               /\ current_line = <<"b">>
        /\ (Len(enqueued) = 1 /\ NothingBuffered) =>
               enqueued = << <<"a", NL, "b">> >>

C30_EmptyLinesDiscarded ==
    /\ \A i \in 1..Len(line_buffer) : line_buffer[i] # <<>>
    /\ \A i \in 1..Len(enqueued) : NoEmptyLine(enqueued[i])
    /\ C30_Example

\* "a\n\nb" written as one text and flushed: the one chunk "a\nb" was posted
C30_Witness ==
    /\ example = "anb"
    /\ Len(total_content) = 1
    /\ todo = <<>>
    /\ ppc = "body"
    /\ lastOp = "flush"
    /\ started = << <<"a", NL, "b">> >>
    /\ Len(posts) = 1

\* ------------------------------------------------ claims about the scope
\* C31: sys.stdout is restored on every way out of the scope.  Inside the
\* body sys.stdout is the session; from the moment the body has ended, by
\* returning or by raising, and whether close() then returns or raises,
\* sys.stdout is the object it named before the scope was entered.  It is
\* restored before close() begins to drain, so a text printed during or
\* after the drain goes to the old sink and the session records nothing of
\* it.
BodyEnded == ppc \in {"close_join", "close_thread_join", "exited"}

C31_Restored ==
    /\ ppc = "body" => sys_stdout = "discord_writer"
    /\ BodyEnded => sys_stdout = old_stdout

C31_LateStep ==
    BodyEnded =>
        /\ UNCHANGED <<written, total_content, line_buffer, current_line,
                       enqueued>>
        /\ to_old' = to_old \o SubSeq(todo, 1, Len(todo) - Len(todo'))

C31_StdoutRestored == []C31_Restored /\ [][C31_LateStep]_vars

\* the body raised, close() raised too, and a text printed meanwhile went to
\* the outer capture that was installed before
C31_Witness ==
    /\ ppc = "exited"
    /\ raised
    /\ lastOp = "close_raised"
    /\ old_stdout = "outer_capture"
    /\ sys_stdout = "outer_capture"
    /\ written # <<>>
    /\ to_old # <<>>
    /\ ~closed

====
